---- MODULE Spec2Model ----
(***************************************************************************)
(* Model of seq2seq/training/utils.py: the RNN cell factory, the learning  *)
(* rate decay function builder, the input pipeline builder and the         *)
(* hyperparameter file writer/reader.                                      *)
(*                                                                         *)
(* Numbers the code treats as Python/TensorFlow reals are exact rationals  *)
(* <<n, d>> with d > 0 in lowest terms.  Python None for an optional       *)
(* number is the empty tuple <<>>.  Text is a sequence of code points.     *)
(***************************************************************************)
EXTENDS Integers, Sequences, FiniteSets, TLC

VARIABLES
  \* create_learning_rate_decay_fn
  cfg,        \* the arguments of create_learning_rate_decay_fn
  fn,         \* "uncalled", or what the builder returned: "None" / "decay_fn"
  log,        \* the calls of decay_fn that returned: [learning_rate, global_step, out]
  err,        \* the exception of the last call that raised, "" if none
  errAt,      \* where it was raised: "", "create_learning_rate_decay_fn", "decay_fn"
  \* get_rnn_cell
  cellArgs,   \* the arguments of get_rnn_cell
  cellPc,     \* "init", "returned", "raised"
  cell,       \* the returned cell (a nested record); <<>> before the return
  \* create_input_fn
  inputArgs,  \* batch_size and bucket_boundaries
  inputFn,    \* TRUE once create_input_fn has returned input_fn
  providerCalls,   \* number of calls of data_provider_fn so far
  featurizerCalls, \* number of calls of featurizer_fn so far
  queuesMade,      \* number of queues declared so far
  pipelines,  \* one record per invocation of input_fn
  \* write_hparams / read_hparams
  hparams_dict,  \* the mapping, as its items in insertion order
  file,          \* the content of the file at path
  hpPc,          \* "init", "written"
  readOut        \* what read_hparams returned

vars == <<cfg, fn, log, err, errAt, cellArgs, cellPc, cell, inputArgs, inputFn,
          providerCalls, featurizerCalls, queuesMade, pipelines,
          hparams_dict, file, hpPc, readOut>>

decayVars == <<cfg, fn, log, err, errAt>>
cellVars  == <<cellArgs, cellPc, cell>>
inputVars == <<inputArgs, inputFn, providerCalls, featurizerCalls, queuesMade, pipelines>>
hpVars    == <<hparams_dict, file, hpPc, readOut>>

(***************************************************************************)
(* Exact rational arithmetic                                               *)
(***************************************************************************)
Abs(x) == IF x < 0 THEN -x ELSE x

RECURSIVE GCD(_, _)
GCD(a, b) == IF b = 0 THEN a ELSE GCD(b, a % b)

\* n/d in lowest terms with a positive denominator (d # 0)
Norm(n, d) ==
  LET s == IF d < 0 THEN -1 ELSE 1
      g == GCD(Abs(n), Abs(d))
  IN  <<(s * n) \div g, (s * d) \div g>>

One  == <<1, 1>>
FromInt(k) == <<k, 1>>

RAdd(p, q) == Norm(p[1] * q[2] + q[1] * p[2], p[2] * q[2])
RMul(p, q) == Norm(p[1] * q[1], p[2] * q[2])
RDiv(p, q) == Norm(p[1] * q[2], p[2] * q[1])
RLt(p, q)  == p[1] * q[2] < q[1] * p[2]
RLe(p, q)  == p[1] * q[2] <= q[1] * p[2]
RMax(p, q) == IF RLt(p, q) THEN q ELSE p
RFloor(p)  == FromInt(p[1] \div p[2])

RECURSIVE IPow(_, _)
IPow(b, k) == IF k = 0 THEN 1 ELSE b * IPow(b, k - 1)

\* q ^ k for an integer k (q # 0 when k < 0)
RPow(q, k) ==
  IF k >= 0 THEN Norm(IPow(q[1], k), IPow(q[2], k))
  ELSE Norm(IPow(q[2], -k), IPow(q[1], -k))

Min(a, b) == IF a < b THEN a ELSE b

(***************************************************************************)
(* Bounds and input domains of the decay function                          *)
(***************************************************************************)
MaxStep  == 4     \* global_step ranges over 0..MaxStep
MaxStart == 2     \* start_decay_at ranges over 0..MaxStart
MaxStop  == 3     \* stop_decay_at ranges over 0..MaxStop
MaxCalls == 2     \* decay_fn is called at most this often in one run

\* decay_type: None (written "None"), the empty string, two names tf.train defines with the
\* signature decay_fn uses, and a name tf.train does not define
DecayTypes == {"None", "", "exponential_decay", "inverse_time_decay", "no_such_decay"}
TfTrain    == {"exponential_decay", "inverse_time_decay"}
DecayStepsSet == {1, 2}
DecayRates    == {<<1, 2>>, <<2, 1>>}
MinRates      == {<<>>, <<0, 1>>, <<1, 1>>}
LearningRates == {<<-1, 1>>, <<1, 2>>, <<2, 1>>}

\* A configuration whose decayed rates are rational: rate ^ (p / decay_steps)
\* with a fractional exponent is not, so exponential decay is taken with
\* staircase or with decay_steps = 1.
Exact(c) ==
  c.decay_type = "exponential_decay" => (c.staircase \/ c.decay_steps = 1)

Configs ==
  {c \in [decay_type : DecayTypes, decay_steps : DecayStepsSet,
          decay_rate : DecayRates, start_decay_at : 0..MaxStart,
          stop_decay_at : 0..MaxStop, min_learning_rate : MinRates,
          staircase : BOOLEAN] : Exact(c)}

(***************************************************************************)
(* tf.train, as decay_fn uses it                                           *)
(***************************************************************************)
\* global_step / decay_steps, floored when staircase
Exponent(global_step, decay_steps, staircase) ==
  LET p == Norm(global_step, decay_steps)
  IN  IF staircase THEN RFloor(p) ELSE p

\* learning_rate * decay_rate ^ (global_step / decay_steps)
exponential_decay(learning_rate, global_step, decay_steps, decay_rate, staircase) ==
  RMul(learning_rate,
       RPow(decay_rate, Exponent(global_step, decay_steps, staircase)[1]))

\* 1 + decay_rate * global_step / decay_steps
InverseTimeDenom(global_step, decay_steps, decay_rate, staircase) ==
  RAdd(One, RMul(decay_rate, Exponent(global_step, decay_steps, staircase)))

\* learning_rate / (1 + decay_rate * global_step / decay_steps)
inverse_time_decay(learning_rate, global_step, decay_steps, decay_rate, staircase) ==
  RDiv(learning_rate,
       InverseTimeDenom(global_step, decay_steps, decay_rate, staircase))

\* getattr(tf.train, decay_type)(...)
decay_type_fn(decay_type, learning_rate, global_step, decay_steps, decay_rate, staircase) ==
  IF decay_type = "exponential_decay"
  THEN exponential_decay(learning_rate, global_step, decay_steps, decay_rate, staircase)
  ELSE inverse_time_decay(learning_rate, global_step, decay_steps, decay_rate, staircase)

\* fault variant: a boundary belongs to the interval after it
piecewise_constant_exclusive(x, boundaries, values) ==
  IF x < boundaries[1] THEN values[1] ELSE values[Len(values)]

\* tf.train.piecewise_constant: values[1] for x <= boundaries[1], values[i+1]
\* for boundaries[i] < x <= boundaries[i+1], the last value beyond the last
\* boundary
piecewise_constant(x, boundaries, values) ==
  IF x <= boundaries[1] THEN values[1]
  ELSE IF x > boundaries[Len(boundaries)] THEN values[Len(values)]
  ELSE LET i == CHOOSE j \in 1..(Len(boundaries) - 1) :
                  x > boundaries[j] /\ x <= boundaries[j + 1]
       IN  values[i + 1]

\* Python truth of an optional number: None and 0 are false
Truthy(m) == m # <<>> /\ m[1] # 0

(***************************************************************************)
(* create_learning_rate_decay_fn                                           *)
(***************************************************************************)
\* the elapsed steps handed to the decay formula
Elapsed(c, global_step) == Min(global_step, c.stop_decay_at) - c.start_decay_at

decayed_learning_rate(c, learning_rate, global_step) ==
  decay_type_fn(c.decay_type, learning_rate, Elapsed(c, global_step),
                c.decay_steps, c.decay_rate, c.staircase)

\* fault variant: the piecewise selection dropped, the decayed rate returned
\* at every step
final_lr_always_decayed(c, learning_rate, global_step) ==
  decayed_learning_rate(c, learning_rate, global_step)

\* the value before the min_learning_rate clamp
final_lr(c, learning_rate, global_step) ==
  piecewise_constant(global_step, <<c.start_decay_at>>,
                     <<learning_rate, decayed_learning_rate(c, learning_rate, global_step)>>)

\* whether the clamp of line 91 is applied
ClampApplies(min_learning_rate) == Truthy(min_learning_rate)

\* the value decay_fn returns
decay_fn(c, learning_rate, global_step) ==
  IF ClampApplies(c.min_learning_rate)
  THEN RMax(final_lr(c, learning_rate, global_step), c.min_learning_rate)
  ELSE final_lr(c, learning_rate, global_step)

\* the decay formula divides by zero (a float inf or nan, which the rationals
\* do not hold): such calls are left out
Defined(c, global_step) ==
  c.decay_type = "inverse_time_decay" =>
     InverseTimeDenom(Elapsed(c, global_step), c.decay_steps, c.decay_rate,
                      c.staircase)[1] # 0

\* fault variant: only None is the sentinel, the empty string is not
BuilderResultNoneOnly(decay_type) ==
  IF decay_type = "None" THEN "None" ELSE "decay_fn"

\* what the builder returns for a decay_type
BuilderResult(decay_type) ==
  IF decay_type = "None" \/ decay_type = "" THEN "None" ELSE "decay_fn"

\* fault variant: the name is looked up in the builder, before decay_fn is
\* defined
BuilderRaisesEager(decay_type) ==
  IF decay_type \in (TfTrain \cup {"None", ""}) THEN "" ELSE "AttributeError"

\* the exception the builder itself raises for a decay_type ("" for none):
\* the name is not looked up before decay_fn runs
BuilderRaises(decay_type) == ""

\* the exception decay_fn raises when getattr(tf.train, decay_type) fails
CallRaises(decay_type) ==
  IF decay_type \in TfTrain THEN "" ELSE "AttributeError"

CreateLearningRateDecayFn ==
  /\ fn = "uncalled"
  /\ IF BuilderRaises(cfg.decay_type) # ""
     THEN /\ err' = BuilderRaises(cfg.decay_type)
          /\ errAt' = "create_learning_rate_decay_fn"
          /\ fn' = "raised"
     ELSE /\ fn' = BuilderResult(cfg.decay_type)
          /\ UNCHANGED <<err, errAt>>
  /\ UNCHANGED <<cfg, log>>

CallDecayFn ==
  /\ fn = "decay_fn"
  /\ Cardinality(log) < MaxCalls
  /\ \E learning_rate \in LearningRates, global_step \in 0..MaxStep :
       IF CallRaises(cfg.decay_type) # ""
       THEN /\ err' = CallRaises(cfg.decay_type)
            /\ errAt' = "decay_fn"
            /\ UNCHANGED log
       ELSE /\ Defined(cfg, global_step)
            /\ log' = log \cup {[learning_rate |-> learning_rate,
                                 global_step |-> global_step,
                                 out |-> decay_fn(cfg, learning_rate, global_step)]}
            /\ UNCHANGED <<err, errAt>>
  /\ UNCHANGED <<cfg, fn>>

DecayInit ==
  /\ cfg \in Configs
  /\ fn = "uncalled"
  /\ log = {}
  /\ err = ""
  /\ errAt = ""

DecayIdle ==
  /\ cfg = [decay_type |-> "None", decay_steps |-> 1, decay_rate |-> One,
            start_decay_at |-> 0, stop_decay_at |-> 0,
            min_learning_rate |-> <<>>, staircase |-> FALSE]
  /\ fn = "uncalled"
  /\ log = {}
  /\ err = ""
  /\ errAt = ""

(***************************************************************************)
(* get_rnn_cell                                                            *)
(***************************************************************************)
MaxLayers == 3    \* num_layers ranges over 1..MaxLayers
MaxUnits  == 2    \* num_units ranges over 1..MaxUnits

\* cell_type: two classes tf.nn.rnn_cell defines and a name it does not
CellTypes == {"LSTMCell", "GRUCell", "NoSuchCell"}
RnnCell   == {"LSTMCell", "GRUCell"}
KeepProbs == {<<1, 2>>, <<1, 1>>}

CellArgsSet ==
  [cell_type : CellTypes, num_units : 1..MaxUnits, num_layers : 1..MaxLayers,
   dropout_input_keep_prob : KeepProbs, dropout_output_keep_prob : KeepProbs]

\* cell_class(num_units)
BaseCell(cell_type, num_units) ==
  [kind |-> cell_type, num_units |-> num_units]

\* fault variant: dropout only when both keep probabilities are below 1.0
NeedsDropoutBoth(dropout_input_keep_prob, dropout_output_keep_prob) ==
  RLt(dropout_input_keep_prob, One) /\ RLt(dropout_output_keep_prob, One)

\* the condition of line 34
NeedsDropout(dropout_input_keep_prob, dropout_output_keep_prob) ==
  RLt(dropout_input_keep_prob, One) \/ RLt(dropout_output_keep_prob, One)

DropoutWrapper(c, input_keep_prob, output_keep_prob) ==
  [kind |-> "DropoutWrapper", cell |-> c,
   input_keep_prob |-> input_keep_prob, output_keep_prob |-> output_keep_prob]

\* the condition of line 40
NeedsStack(num_layers) == num_layers > 1

\* MultiRNNCell([cell] * num_layers)
MultiRNNCell(c, num_layers) ==
  [kind |-> "MultiRNNCell", cells |-> [i \in 1..num_layers |-> c]]

get_rnn_cell(a) ==
  LET base == BaseCell(a.cell_type, a.num_units)
      wrapped ==
        IF NeedsDropout(a.dropout_input_keep_prob, a.dropout_output_keep_prob)
        THEN DropoutWrapper(base, a.dropout_input_keep_prob,
                            a.dropout_output_keep_prob)
        ELSE base
  IN  IF NeedsStack(a.num_layers) THEN MultiRNNCell(wrapped, a.num_layers)
      ELSE wrapped

GetRnnCell ==
  /\ cellPc = "init"
  /\ IF cellArgs.cell_type \in RnnCell
     THEN /\ cell' = get_rnn_cell(cellArgs)
          /\ cellPc' = "returned"
     ELSE /\ cellPc' = "raised"      \* getattr raises AttributeError
          /\ UNCHANGED cell
  /\ UNCHANGED cellArgs

CellInit ==
  /\ cellArgs \in CellArgsSet
  /\ cellPc = "init"
  /\ cell = <<>>

CellIdle ==
  /\ cellArgs = [cell_type |-> "LSTMCell", num_units |-> 1, num_layers |-> 1,
                 dropout_input_keep_prob |-> One, dropout_output_keep_prob |-> One]
  /\ cellPc = "init"
  /\ cell = <<>>

(***************************************************************************)
(* write_hparams / read_hparams                                            *)
(***************************************************************************)
NL    == 10    \* "\n"
Eq    == 61    \* "="
Comma == 44    \* ","
MaxEntries == 2   \* a mapping has at most this many entries

\* keys "a", "b", "ab" and "a\nb"; values 1, 2 and 10
Keys   == {<<97>>, <<98>>, <<97, 98>>, <<97, NL, 98>>}
Values == {1, 2, 10}
\* what the file holds before the write: nothing, or "z=9\n"
PrevContents == {<<>>, <<122, Eq, 57, NL>>}
NotRead == <<-1>>

\* the items of a mapping in insertion order: distinct keys
Dicts ==
  UNION {{d \in [1..n -> Keys \X Values] :
            \A i, j \in 1..n : d[i][1] = d[j][1] => i = j} : n \in 0..MaxEntries}

\* str of a non-negative int
RECURSIVE Str(_)
Str(n) == IF n < 10 THEN <<48 + n>> ELSE Str(n \div 10) \o <<48 + (n % 10)>>

\* "{}={}".format(k, v)
Format(k, v) == k \o <<Eq>> \o Str(v)

\* Python's < on str: by code point, a proper prefix first
RECURSIVE StrLess(_, _)
StrLess(s, t) ==
  IF t = <<>> THEN FALSE
  ELSE IF s = <<>> THEN TRUE
  ELSE IF s[1] # t[1] THEN s[1] < t[1]
  ELSE StrLess(Tail(s), Tail(t))

\* Python's < on the (key, value) tuples of items()
ItemLess(x, y) ==
  StrLess(x[1], y[1]) \/ (x[1] = y[1] /\ x[2] < y[2])

\* x put into the sorted list l, after the items not greater than it
RECURSIVE Insert(_, _)
Insert(x, l) ==
  IF l = <<>> THEN <<x>>
  ELSE IF ItemLess(x, l[1]) THEN <<x>> \o l
  ELSE <<l[1]>> \o Insert(x, Tail(l))

\* fault variant: the items written in insertion order
Unsorted(l) == l

\* sorted(items)
RECURSIVE Sorted(_)
Sorted(l) ==
  IF l = <<>> THEN <<>> ELSE Insert(l[Len(l)], Sorted(SubSeq(l, 1, Len(l) - 1)))

\* sep.join(parts)
RECURSIVE Join(_, _)
Join(sep, parts) ==
  IF parts = <<>> THEN <<>>
  ELSE IF Len(parts) = 1 THEN parts[1]
  ELSE parts[1] \o sep \o Join(sep, Tail(parts))

\* the lines write_hparams joins
HParamLines(d) ==
  LET s == Sorted(d) IN [i \in 1..Len(s) |-> Format(s[i][1], s[i][2])]

\* the text write_hparams writes
WriteOut(d) == Join(<<NL>>, HParamLines(d))

\* file.readlines(): each line up to and including its "\n"; a last line
\* without one is a line too
RECURSIVE ReadLinesFrom(_, _)
ReadLinesFrom(text, cur) ==
  IF text = <<>> THEN (IF cur = <<>> THEN <<>> ELSE <<cur>>)
  ELSE IF text[1] = NL THEN <<cur \o <<NL>>>> \o ReadLinesFrom(Tail(text), <<>>)
  ELSE ReadLinesFrom(Tail(text), cur \o <<text[1]>>)

ReadLines(text) == ReadLinesFrom(text, <<>>)

\* the string read_hparams returns for a file content
ReadOut(text) == Join(<<Comma>>, ReadLines(text))

WriteHParams ==
  /\ hpPc = "init"
  /\ file' = WriteOut(hparams_dict)
  /\ hpPc' = "written"
  /\ UNCHANGED <<hparams_dict, readOut>>

ReadHParams ==
  /\ hpPc = "written"
  /\ readOut = NotRead
  /\ readOut' = ReadOut(file)
  /\ UNCHANGED <<hparams_dict, file, hpPc>>

HpInit ==
  /\ hparams_dict \in Dicts
  /\ file \in PrevContents
  /\ hpPc = "init"
  /\ readOut = NotRead

HpIdle ==
  /\ hparams_dict = <<>>
  /\ file = <<>>
  /\ hpPc = "init"
  /\ readOut = NotRead

(***************************************************************************)
(* create_input_fn                                                         *)
(***************************************************************************)
MaxInvocations == 2   \* input_fn is invoked at most this often
MaxRecords     == 3   \* records read from the data providers, all pipelines together
MaxBatchSize   == 2   \* batch_size ranges over 1..MaxBatchSize

\* bucket_boundaries: None or [] (both false in Python), or [2]
BucketBoundaries == {<<>>, <<2>>}
\* what a data provider yields: source_len and target_len
Records == [source_len : {1, 3}, target_len : {0, 1}]

InputArgsSet == [batch_size : 1..MaxBatchSize, bucket_boundaries : BucketBoundaries]

\* the branch of line 133
Bucketed(bucket_boundaries) == bucket_boundaries # <<>>

\* capacity=5000 + 16 * batch_size
Capacity(batch_size) == 5000 + 16 * batch_size

\* bucket_by_sequence_length: the first bucket i (from 0) with
\* min_i <= input_length < max_i, the minima being -inf and the boundaries,
\* the maxima the boundaries and +inf
WhichBucket(input_length, bucket_boundaries) ==
  LET n == Len(bucket_boundaries)
      fits(i) == /\ (i = 0 \/ bucket_boundaries[i] <= input_length)
                 /\ (i = n \/ input_length < bucket_boundaries[i + 1])
  IN  CHOOSE i \in 0..n : fits(i) /\ \A j \in 0..(i - 1) : ~fits(j)

\* fault variant: the filter admits target_len = 0
KeepInputNonNegative(r) == r.target_len >= 0

\* keep_input of line 139, and the condition of the tf.cond of line 146
KeepInput(r) == r.target_len >= 1

\* slice_end of lines 146-147
SliceEnd(r) == IF KeepInput(r) THEN 1 ELSE 0

\* the rows a record contributes to the queue: expand_dims(v, 0)[0:slice_end]
Rows(r) == SubSeq(<<r>>, 1, SliceEnd(r))

\* the queue a kept record goes to: its bucket, or the one batch queue
QueueOf(r, bucket_boundaries) ==
  IF Bucketed(bucket_boundaries)
  THEN WhichBucket(r.source_len, bucket_boundaries)
  ELSE 0

\* the rows a record adds to its queue, by the branch taken
Enqueued(r, bucket_boundaries) ==
  IF Bucketed(bucket_boundaries)
  THEN (IF KeepInput(r) THEN <<r>> ELSE <<>>)
  ELSE Rows(r)

QueueCount(bucket_boundaries) ==
  IF Bucketed(bucket_boundaries) THEN Len(bucket_boundaries) + 1 ELSE 1

\* fault variant: the data provider, featurizer and queue built once and
\* shared by every invocation
NewPipelineShared(nProvider, nFeaturizer, nQueue, a) ==
  [provider   |-> 1,
   featurizer |-> 1,
   queue      |-> 1,
   read       |-> <<>>,
   queues     |-> [b \in 0..(QueueCount(a.bucket_boundaries) - 1) |-> <<>>],
   batches    |-> <<>>]

\* the objects one invocation of input_fn builds: data_provider_fn() and
\* featurizer_fn(features) are called here, and a queue is declared
NewPipeline(nProvider, nFeaturizer, nQueue, a) ==
  [provider   |-> nProvider + 1,
   featurizer |-> nFeaturizer + 1,
   queue      |-> nQueue + 1,
   read       |-> <<>>,
   queues     |-> [b \in 0..(QueueCount(a.bucket_boundaries) - 1) |-> <<>>],
   batches    |-> <<>>]

\* create_input_fn only defines input_fn and returns it
CreateInputFn ==
  /\ ~inputFn
  /\ inputFn' = TRUE
  /\ UNCHANGED <<inputArgs, providerCalls, featurizerCalls, queuesMade, pipelines>>

InputFn ==
  /\ inputFn
  /\ Len(pipelines) < MaxInvocations
  /\ pipelines' = Append(pipelines,
                         NewPipeline(providerCalls, featurizerCalls, queuesMade, inputArgs))
  /\ providerCalls' = providerCalls + 1
  /\ featurizerCalls' = featurizerCalls + 1
  /\ queuesMade' = queuesMade + 1
  /\ UNCHANGED <<inputArgs, inputFn>>

RECURSIVE SumLen(_, _)
SumLen(f, n) == IF n < 0 THEN 0 ELSE Len(f[n]) + SumLen(f, n - 1)

RECURSIVE TotalRead(_)
TotalRead(ps) == IF ps = <<>> THEN 0 ELSE Len(ps[1].read) + TotalRead(Tail(ps))

\* the runtime reads one record from pipeline i's provider and offers it to
\* the batching queue
ReadRecord ==
  \E i \in 1..Len(pipelines), r \in Records :
    LET p   == pipelines[i]
        rec == [id |-> Len(p.read) + 1, source_len |-> r.source_len,
                target_len |-> r.target_len]
        b   == QueueOf(rec, inputArgs.bucket_boundaries)
        new == Enqueued(rec, inputArgs.bucket_boundaries)
    IN  /\ TotalRead(pipelines) < MaxRecords
        /\ SumLen(p.queues, QueueCount(inputArgs.bucket_boundaries) - 1) + Len(new)
             <= Capacity(inputArgs.batch_size)
        /\ pipelines' = [pipelines EXCEPT
                           ![i].read = Append(p.read, rec),
                           ![i].queues[b] = p.queues[b] \o new]
        /\ UNCHANGED <<inputArgs, inputFn, providerCalls, featurizerCalls, queuesMade>>

\* the runtime dequeues one batch of batch_size rows from a queue of pipeline i
EmitBatch ==
  \E i \in 1..Len(pipelines) :
    \E b \in DOMAIN pipelines[i].queues :
      LET q == pipelines[i].queues[b]
          n == inputArgs.batch_size
      IN  /\ Len(q) >= n
          /\ pipelines' = [pipelines EXCEPT
                             ![i].queues[b] = SubSeq(q, n + 1, Len(q)),
                             ![i].batches = Append(pipelines[i].batches,
                                                   SubSeq(q, 1, n))]
          /\ UNCHANGED <<inputArgs, inputFn, providerCalls, featurizerCalls, queuesMade>>

InputInit ==
  /\ inputArgs \in InputArgsSet
  /\ inputFn = FALSE
  /\ providerCalls = 0
  /\ featurizerCalls = 0
  /\ queuesMade = 0
  /\ pipelines = <<>>

InputIdle ==
  /\ inputArgs = [batch_size |-> 1, bucket_boundaries |-> <<>>]
  /\ inputFn = FALSE
  /\ providerCalls = 0
  /\ featurizerCalls = 0
  /\ queuesMade = 0
  /\ pipelines = <<>>

(***************************************************************************)
(* Specifications, one per component                                       *)
(***************************************************************************)
\* The four components share no state: each is run on its own, the others
\* staying as constructed.
DecayNext ==
  \/ CreateLearningRateDecayFn /\ UNCHANGED <<cellVars, inputVars, hpVars>>
  \/ CallDecayFn /\ UNCHANGED <<cellVars, inputVars, hpVars>>

InitDecay == DecayInit /\ CellIdle /\ InputIdle /\ HpIdle
SpecDecay == InitDecay /\ [][DecayNext]_vars

CellNext ==
  \/ GetRnnCell /\ UNCHANGED <<decayVars, inputVars, hpVars>>

InitCell == DecayIdle /\ CellInit /\ InputIdle /\ HpIdle
SpecCell == InitCell /\ [][CellNext]_vars

InputNext ==
  \/ CreateInputFn /\ UNCHANGED <<decayVars, cellVars, hpVars>>
  \/ InputFn /\ UNCHANGED <<decayVars, cellVars, hpVars>>
  \/ ReadRecord /\ UNCHANGED <<decayVars, cellVars, hpVars>>
  \/ EmitBatch /\ UNCHANGED <<decayVars, cellVars, hpVars>>

InitInput == DecayIdle /\ CellIdle /\ InputInit /\ HpIdle
SpecInput == InitInput /\ [][InputNext]_vars

HpNext ==
  \/ WriteHParams /\ UNCHANGED <<decayVars, cellVars, inputVars>>
  \/ ReadHParams /\ UNCHANGED <<decayVars, cellVars, inputVars>>

InitHParams == DecayIdle /\ CellIdle /\ InputIdle /\ HpInit
SpecHParams == InitHParams /\ [][HpNext]_vars

(***************************************************************************)
(* Properties of the decay function (checked under SpecDecay)              *)
(***************************************************************************)
MinSet   == cfg.min_learning_rate # <<>>
MinUnset == cfg.min_learning_rate = <<>>
UnknownType == cfg.decay_type \notin (TfTrain \cup {"None", ""})

\* C1 as stated: before start_decay_at every call returns learning_rate
\* exactly, whatever min_learning_rate is.
C1_WarmUpExact ==
  \A e \in log :
    e.global_step < cfg.start_decay_at => e.out = e.learning_rate

\* C1 amended: before start_decay_at every call returns learning_rate exactly
\* when min_learning_rate is unset or does not exceed learning_rate.
C1_WarmUpUnlessClamped ==
  \A e \in log :
    (/\ e.global_step < cfg.start_decay_at
     /\ (MinUnset \/ RLe(cfg.min_learning_rate, e.learning_rate)))
    => e.out = e.learning_rate

C1_Witness ==
  \E e \in log :
    /\ e.global_step < cfg.start_decay_at
    /\ MinSet
    /\ RLt(cfg.min_learning_rate, e.learning_rate)
    /\ e.out = e.learning_rate

\* C2: every call at or after stop_decay_at returns what the call at
\* stop_decay_at returns for the same learning_rate, in every configuration.
C2_StopPlateau ==
  \A a, b \in log :
    (/\ a.learning_rate = b.learning_rate
     /\ b.global_step = cfg.stop_decay_at
     /\ a.global_step >= cfg.stop_decay_at)
    => a.out = b.out

\* C3: with min_learning_rate set to any number, every returned value is at
\* least min_learning_rate, and equals it when the value before the clamp is
\* lower.
C3_MinClamp ==
  \A e \in log :
    MinSet =>
      /\ RLe(cfg.min_learning_rate, e.out)
      /\ RLt(final_lr(cfg, e.learning_rate, e.global_step), cfg.min_learning_rate)
           => e.out = cfg.min_learning_rate

\* C4 as stated: for a decay_type tf.train does not define, the builder call
\* itself fails and returns no function.
C4_FailsInBuilder ==
  (UnknownType /\ fn # "uncalled") =>
     (fn = "raised" /\ errAt = "create_learning_rate_decay_fn")

\* C4 amended: for a decay_type tf.train does not define, the builder returns
\* a function without raising; the AttributeError is raised by that function,
\* when it is invoked, and no invocation of it returns a value.
C4_FailsInDecayFn ==
  (UnknownType /\ fn # "uncalled") =>
     /\ fn = "decay_fn"
     /\ log = {}
     /\ errAt \in {"", "decay_fn"}
     /\ (errAt = "decay_fn" <=> err = "AttributeError")

C4_Witness ==
  /\ UnknownType
  /\ fn = "decay_fn"
  /\ errAt = "decay_fn"
  /\ err = "AttributeError"

\* C9: the builder returns None exactly when decay_type is None or the empty
\* string, and a function for every other decay_type.
C9_NoDecaySentinel ==
  fn # "uncalled" =>
     /\ (cfg.decay_type \in {"None", ""} => fn = "None")
     /\ (cfg.decay_type \notin {"None", ""} => fn = "decay_fn")

C9_Witness ==
  /\ cfg.decay_type = ""
  /\ fn = "None"
  /\ cfg.min_learning_rate # <<>>

\* the decay formula at the elapsed steps of a call
Formula(e) ==
  decay_type_fn(cfg.decay_type, e.learning_rate,
                Min(e.global_step, cfg.stop_decay_at) - cfg.start_decay_at,
                cfg.decay_steps, cfg.decay_rate, cfg.staircase)

LayerCell == IF cell.kind = "MultiRNNCell" THEN cell.cells[1] ELSE cell

\* C7: the base cell is wrapped in a dropout wrapper exactly when one keep
\* probability is below 1.0, and the (possibly wrapped) cell is stacked into
\* num_layers layers exactly when num_layers >= 2.
C7_CellStructure ==
  cellPc = "returned" =>
    LET a == cellArgs
        base == [kind |-> a.cell_type, num_units |-> a.num_units]
        dropout == \/ RLt(a.dropout_input_keep_prob, One)
                   \/ RLt(a.dropout_output_keep_prob, One)
    IN  /\ (cell.kind = "MultiRNNCell") <=> (a.num_layers >= 2)
        /\ cell.kind = "MultiRNNCell" =>
             /\ DOMAIN cell.cells = 1..a.num_layers
             /\ \A i \in DOMAIN cell.cells : cell.cells[i] = LayerCell
        /\ (LayerCell.kind = "DropoutWrapper") <=> dropout
        /\ dropout =>
             /\ LayerCell.cell = base
             /\ LayerCell.input_keep_prob = a.dropout_input_keep_prob
             /\ LayerCell.output_keep_prob = a.dropout_output_keep_prob
        /\ ~dropout => LayerCell = base

C7_Witness ==
  /\ cellPc = "returned"
  /\ cellArgs.num_layers = 3
  /\ cellArgs.dropout_input_keep_prob = One
  /\ RLt(cellArgs.dropout_output_keep_prob, One)
  /\ cell.kind = "MultiRNNCell"
  /\ cell.cells[3].kind = "DropoutWrapper"

(***************************************************************************)
(* Properties of the input pipeline (checked under SpecInput)              *)
(***************************************************************************)
Range(f) == {f[x] : x \in DOMAIN f}

\* the rows waiting in the queues of a pipeline
Queued(p) == UNION {Range(p.queues[b]) : b \in DOMAIN p.queues}
\* the rows of the batches a pipeline has emitted
Batched(p) == UNION {Range(p.batches[k]) : k \in DOMAIN p.batches}

\* C5: in both modes no record with target_len < 1 is in an emitted batch,
\* and every record read with target_len >= 1 was admitted to the batching
\* queue (it waits there or has left it in a batch).
C5_InputFiltering ==
  \A i \in DOMAIN pipelines :
    LET p == pipelines[i]
    IN  /\ \A r \in Batched(p) : r.target_len >= 1
        /\ \A r \in Range(p.read) :
             r.target_len >= 1 => r \in (Queued(p) \cup Batched(p))
        /\ \A k \in DOMAIN p.batches : Len(p.batches[k]) = inputArgs.batch_size

C5_Witness ==
  \E i \in DOMAIN pipelines :
    LET p == pipelines[i]
    IN  /\ inputArgs.bucket_boundaries # <<>>
        /\ \E r \in Range(p.read) : r.target_len < 1
        /\ \E r \in Range(p.read) : r.target_len >= 1 /\ r \in Batched(p)
        /\ \E r \in Range(p.read) : r.target_len >= 1 /\ r \in Queued(p)

Ascending(d) ==
  CHOOSE s \in [1..Len(d) -> Range(d)] :
    /\ \A i, j \in 1..Len(d) : i < j => StrLess(s[i][1], s[j][1])
    /\ Range(s) = Range(d)

RECURSIVE Concat(_)
Concat(parts) == IF parts = <<>> THEN <<>> ELSE parts[1] \o Concat(Tail(parts))

\* the 'key=value' entries in ascending key order
Entries(d) ==
  LET s == Ascending(d)
  IN  [i \in 1..Len(d) |-> s[i][1] \o <<Eq>> \o Str(s[i][2])]

\* the entries, each but the last followed by "\n"
ExpectedFile(d) ==
  Concat([i \in 1..Len(d) |->
            IF i < Len(d) THEN Entries(d)[i] \o <<NL>> ELSE Entries(d)[i]])

\* the entries, each but the last followed by "\n" and ","
ExpectedRead(d) ==
  Concat([i \in 1..Len(d) |->
            IF i < Len(d) THEN Entries(d)[i] \o <<NL, Comma>> ELSE Entries(d)[i]])

NoNewline(d) == \A i \in DOMAIN d : \A k \in DOMAIN d[i][1] : d[i][1][k] # NL

\* C6 as stated: for every mapping, the file holds the entries in ascending
\* key order separated by single newlines, and read_hparams returns those
\* entries, each but the last ending in its newline, joined by ','.
C6_WriteRead ==
  hpPc = "written" =>
    /\ file = ExpectedFile(hparams_dict)
    /\ readOut # NotRead => readOut = ExpectedRead(hparams_dict)

\* C6 amended: the same, for every mapping whose keys contain no newline
\* (the values being numbers).
C6_WriteReadNoNewline ==
  (hpPc = "written" /\ NoNewline(hparams_dict)) =>
    /\ file = ExpectedFile(hparams_dict)
    /\ readOut # NotRead => readOut = ExpectedRead(hparams_dict)

C6_Witness ==
  /\ hpPc = "written"
  /\ readOut # NotRead
  /\ Len(hparams_dict) = 2
  /\ NoNewline(hparams_dict)
  /\ StrLess(hparams_dict[2][1], hparams_dict[1][1])
  /\ file # <<>>

====
